---- MODULE Spec2Model ----
(***************************************************************************)
(* Model of rhc_enable: one run of main() against a PCE.                   *)
(*                                                                         *)
(* Go strings that the program trims, lower-cases or compares are          *)
(* sequences of one-character strings; hrefs, message tags and URL         *)
(* templates, which the program only copies, are TLA+ strings.  A JSON     *)
(* document is the record / sequence it denotes.                           *)
(***************************************************************************)
EXTENDS Integers, Sequences, FiniteSets, TLC

\* Cap on the label lookups (GET /labels) of one run: the loop of
\* main() has no limit of its own.
MaxLookups == 2

(***************************************************************************)
(* strings                                                                 *)
(***************************************************************************)
Upper == <<"A","B","C","D","E","F","G","H","I","J","K","L","M",
           "N","O","P","Q","R","S","T","U","V","W","X","Y","Z">>
Lower == <<"a","b","c","d","e","f","g","h","i","j","k","l","m",
           "n","o","p","q","r","s","t","u","v","w","x","y","z">>

\* unicode.ToLower on one character
ToLowerCh(c) ==
    IF \E i \in 1..26 : Upper[i] = c
    THEN Lower[CHOOSE i \in 1..26 : Upper[i] = c]
    ELSE c

\* strings.ToLower
ToLower(s) == [i \in 1..Len(s) |-> ToLowerCh(s[i])]

\* unicode.IsSpace
IsSpace(c) == c \in {" ", "\t", "\n", "\r"}

RECURSIVE TrimLeft(_)
TrimLeft(s) ==
    IF s # <<>> /\ IsSpace(Head(s)) THEN TrimLeft(Tail(s)) ELSE s

RECURSIVE TrimRight(_)
TrimRight(s) ==
    IF s # <<>> /\ IsSpace(s[Len(s)])
    THEN TrimRight(SubSeq(s, 1, Len(s) - 1))
    ELSE s

\* strings.TrimSpace
TrimSpace(s) == TrimRight(TrimLeft(s))

\* strings.EqualFold: equal length and character-wise equal under case folding
EqualFoldExact(s, t) == s = t
EqualFold(s, t) ==
    /\ Len(s) = Len(t)
    /\ \A i \in 1..Len(s) : ToLowerCh(s[i]) = ToLowerCh(t[i])

(***************************************************************************)
(* HTTP                                                                    *)
(***************************************************************************)
\* statusCode < 200 || statusCode >= 300 is the failure test of every call
Is2xxLoose(code) == code >= 200 /\ code <= 300
Is2xx(code) == ~(code < 200 \/ code >= 300)

StatusCodes == {200, 300, 404}

\* What makeAPICall returns: a transport error (0, nil, err), or the status
\* with a body.  json tells whether the body is the JSON document of the
\* resource; the PCE sends the document only with a 2xx status.
Responses ==
    {[err |-> TRUE, status |-> 0, json |-> FALSE]} \cup
    {r \in [err : {FALSE}, status : StatusCodes, json : BOOLEAN] :
        r.json => r.status \in 200..299}

\* err != nil || statusCode < 200 || statusCode >= 300
CallFailed(r) == r.err \/ ~Is2xx(r.status)

(***************************************************************************)
(* data                                                                    *)
(***************************************************************************)
Fields == {"APIKey", "APISecret", "FQDN", "Port", "OrgID"}

\* PCEConfig{} : every field the empty string
ZeroConfig == [f \in Fields |-> <<>>]

\* a complete profile, as a pce.json of an earlier run holds it
FullConfig == [f \in Fields |-> <<"1">>]

\* lines typed at the prompts of loadOrCreatePCEConfig
ConfigAnswers == {<<"\n">>, <<"2", "\n">>}

\* lines typed at the first scope prompt
s_disable == <<"d","i","s","a","b","l","e">>
s_all == <<"a","l","l">>
s_production == <<"p","r","o","d","u","c","t","i","o","n">>
ScopeInputs ==
    { <<"d","i","s","a","b","l","e","\n">>,
      <<"D","i","s","a","b","l","e">>,
      <<"D","I","S","A","B","L","E"," ","\n">>,
      <<"a","l","l","\n">>,
      <<"A","l","l">>,
      <<" ","A","L","L","\n">>,
      <<"p","r","o","d","u","c","t","i","o","n","\n">>,
      <<"d","b","\n">>,
      <<"\n">> }

\* lines typed at "Please enter a valid label:" and "Enter another label: "
LabelInputs ==
    { <<"p","r","o","d","u","c","t","i","o","n","\n">>,
      <<" ","W","E","B","\n">>,
      <<"D","i","s","a","b","l","e","\n">> }

\* lines typed at "Do you want to add another label? (y/N): "
MoreInputs == { <<"y", "\n">>, <<" ", "Y", "\n">>, <<"\n">>, <<"n", "\n">> }

\* lines typed at "Do you want to proceed with provisioning changes? (Y/n): "
ConfirmInputs ==
    { <<"\n">>, <<"Y", " ", "\n">>, <<"n", "\n">>, <<"y","e","s","\n">> }

\* label catalogs of the PCE (the body of GET /labels), []Label
Catalogs ==
    { << [href |-> "/orgs/1/labels/5", value |-> <<"P","r","o","d","u","c","t","i","o","n"," ">>],
         [href |-> "/orgs/1/labels/7", value |-> <<"p","r","o","d","u","c","t","i","o","n">>],
         [href |-> "/orgs/1/labels/9", value |-> <<"W","e","b">>] >>,
      << [href |-> "/orgs/1/labels/9", value |-> <<"w","e","b">>],
         [href |-> "/orgs/1/labels/7", value |-> <<"\t","P","R","O","D","U","C","T","I","O","N">>] >>,
      << >> }

\* one element of a scope: {"label": {"href": h}}
LabelRef(h) == [label |-> [href |-> h]]

\* draft rule_hit_count_enabled_scopes the PCE may hold when the run starts
InitialScopes ==
    { << >>,
      << << >> >>,
      << << LabelRef("/orgs/1/labels/9") >> >>,
      << << LabelRef("/orgs/1/labels/5") >>, << LabelRef("/orgs/1/labels/9") >> >> }

(***************************************************************************)
(* JSON documents of the program                                           *)
(***************************************************************************)
\* the Go string "" (payload before it is assigned, the body of a GET)
NoBody == [raw |-> ""]

\* a body that json.Unmarshal rejects
NotJson == [raw |-> "not json"]

\* the body of a response r to a GET of a resource whose document is doc
Body(r, doc) == IF r.err THEN NoBody ELSE IF r.json THEN doc ELSE NotJson

\* `{"enabled": true}`
EnablePayloadOff == [enabled |-> FALSE]
EnablePayload == [enabled |-> TRUE]

\* `{"rule_hit_count_enabled_scopes":[]}`
DisablePayload == [rule_hit_count_enabled_scopes |-> << >>]

\* `{"rule_hit_count_enabled_scopes":[[]]}`
AllPayloadNone == [rule_hit_count_enabled_scopes |-> << >>]
AllPayload == [rule_hit_count_enabled_scopes |-> << << >> >>]

\* json.Marshal(map{"rule_hit_count_enabled_scopes": {scopes}})
LabelPayload(scopes) == [rule_hit_count_enabled_scopes |-> << scopes >>]

\* json.Unmarshal(body, &reportStatus): a missing key leaves the zero value
DecodeReportStatus(doc) ==
    [Enabled |-> IF "enabled" \in DOMAIN doc THEN doc.enabled ELSE FALSE]

\* json.Unmarshal(body, &FirewallSettings{}).RuleHitCountEnabledScopes
DecodeScopes(doc) ==
    IF "rule_hit_count_enabled_scopes" \in DOMAIN doc
    THEN doc.rule_hit_count_enabled_scopes
    ELSE << >>

\* provisionPayload, built from config.OrgID
ProvisionPayload(org) ==
    [update_description |-> "Enable rule hit count",
     change_subset |->
        [firewall_settings |->
            << [href |-> [tpl |-> "/orgs/%s/sec_policy/draft/firewall_settings",
                          org |-> org]] >>]]

(***************************************************************************)
(* pure steps of the program                                               *)
(***************************************************************************)
\* the scan of checkLabelHref: the href of the first label whose trimmed
\* value equals labelValue under case folding
RECURSIVE FindLabelLast(_, _)
FindLabelLast(labels, labelValue) ==
    IF labels = << >>
    THEN [href |-> "", err |-> "label not found"]
    ELSE IF EqualFold(TrimSpace(labels[Len(labels)].value), labelValue)
         THEN [href |-> labels[Len(labels)].href, err |-> ""]
         ELSE FindLabelLast(SubSeq(labels, 1, Len(labels) - 1), labelValue)

\* the scan without its final error
RECURSIVE FindLabelNoError(_, _)
FindLabelNoError(labels, labelValue) ==
    IF labels = << >>
    THEN [href |-> "", err |-> ""]
    ELSE IF EqualFold(TrimSpace(Head(labels).value), labelValue)
         THEN [href |-> Head(labels).href, err |-> ""]
         ELSE FindLabelNoError(Tail(labels), labelValue)

RECURSIVE FindLabel(_, _)
FindLabel(labels, labelValue) ==
    IF labels = << >>
    THEN [href |-> "", err |-> "label not found"]
    ELSE IF EqualFold(TrimSpace(Head(labels).value), labelValue)
         THEN [href |-> Head(labels).href, err |-> ""]
         ELSE FindLabel(Tail(labels), labelValue)

\* checkLabelHref on the response r of GET /labels with the body body
checkLabelHref(r, body, labelValue) ==
    IF CallFailed(r)
    THEN [href |-> "", err |-> "failed to fetch labels"]
    ELSE IF "array" \notin DOMAIN body
         THEN [href |-> "", err |-> "failed to parse label response"]
         ELSE FindLabel(body.array, labelValue)

\* the comparison of main(): equal outer length and equal length of every
\* corresponding inner list
ScopesEqualNever(current, new) == FALSE
ScopesEqualDeep(current, new) == current = new
ScopesEqualOuter(current, new) == Len(current) = Len(new)
ScopesEqual(current, new) ==
    /\ Len(current) = Len(new)
    /\ \A i \in 1..Len(current) : Len(current[i]) = Len(new[i])

\* strings.ToLower(strings.TrimSpace(moreLabels)) != "y" ends collection
WantsMoreAny(moreLabels) == TrimSpace(moreLabels) # << >>
WantsMore(moreLabels) == ToLower(TrimSpace(moreLabels)) = <<"y">>

\* strings.ToLower(confirmation) == "y" || confirmation == "", on the
\* trimmed answer
ConfirmedStrict(confirmation) == ToLower(confirmation) = <<"y">>
Confirmed(confirmation) ==
    ToLower(confirmation) = <<"y">> \/ confirmation = << >>

(***************************************************************************)
(* loadOrCreatePCEConfig                                                   *)
(***************************************************************************)
FieldOrder == <<"APIKey", "APISecret", "FQDN", "Port", "OrgID">>

PromptText ==
    [APIKey |-> "API Key: ", APISecret |-> "API Secret: ", FQDN |-> "FQDN: ",
     Port |-> "Port: ", OrgID |-> "Org ID: "]

\* a prompt for every field
PromptsForAll(c, order) == [i \in 1..Len(order) |-> PromptText[order[i]]]

\* the prompts printed for the fields of c that are empty, in code order
RECURSIVE PromptsFor(_, _)
PromptsFor(c, order) ==
    IF order = << >> THEN << >>
    ELSE (IF c[Head(order)] = << >> THEN << PromptText[Head(order)] >> ELSE << >>)
         \o PromptsFor(c, Tail(order))

\* file: the config file (exists, readable, content as json.Unmarshal
\* decodes it, writes so far); first, second: the lines typed at the
\* prompts of the creation branch and of the missing-field branch
loadOrCreatePCEConfig(file, first, second) ==
    LET created == ~file.exists
        loaded  == IF created
                   THEN [f \in Fields |-> TrimSpace(first[f])]
                   ELSE file.content
        missing == \E f \in Fields : loaded[f] = << >>
        merged  == IF missing
                   THEN [f \in Fields |->
                            IF loaded[f] = << >> THEN TrimSpace(second[f])
                            ELSE loaded[f]]
                   ELSE loaded
    IN  IF file.exists /\ ~file.readable
        THEN [config |-> ZeroConfig, err |-> TRUE, file |-> file, out |-> << >>]
        ELSE [config |-> merged,
              err    |-> FALSE,
              file   |-> [exists   |-> TRUE,
                          readable |-> TRUE,
                          content  |-> merged,
                          writes   |-> file.writes
                                       + (IF created THEN 1 ELSE 0)
                                       + (IF missing THEN 1 ELSE 0)],
              out    |-> (IF created
                          THEN << "Configuration file not found" >>
                               \o PromptsFor(ZeroConfig, FieldOrder)
                               \o << "Configuration saved" >>
                          ELSE << >>)
                         \o (IF missing
                             THEN PromptsFor(loaded, FieldOrder)
                                  \o << "Updated and saved configuration" >>
                             ELSE << >>)]

(***************************************************************************)
(* state                                                                   *)
(***************************************************************************)
VARIABLES
    pc,             \* position of main()
    cfgFile,        \* the file named by --config
    config,         \* PCEConfig returned by loadOrCreatePCEConfig
    catalog,        \* PCE: the labels
    reportEnabled,  \* PCE: report_templates/rule_hit_count_report .enabled
    draftScopes,    \* PCE: draft firewall_settings .rule_hit_count_enabled_scopes
    activeScopes,   \* PCE: the provisioned rule_hit_count_enabled_scopes
    requests,       \* the calls of makeAPICall so far, with their status
    labelInput,     \* main(): labelInput
    scopeInput,     \* main(): labelInput as first read (line 236)
    scopes,         \* main(): scopes
    payload,        \* main(): payload
    moreLabels,     \* main(): moreLabels, the last answer to "add another label?"
    confirmation,   \* main(): confirmation
    fatal,          \* the log.Fatalf that ended the run, if any
    stdout,         \* what was printed: prompts and messages
    earlier         \* what the earlier run left: its payload and the PCE state

vars == << pc, cfgFile, config, catalog, reportEnabled, draftScopes,
           activeScopes, requests, labelInput, scopeInput, scopes, payload,
           moreLabels, confirmation, fatal, stdout, earlier >>

pce == << catalog, reportEnabled, draftScopes, activeScopes >>

NoFatal == [at |-> "", msg |-> "", code |-> << >>]

\* fmt.Sprintf("https://%s:%s/api/v2/orgs/%s/<path>", FQDN, Port, OrgID)
Url(path) ==
    [fqdn |-> config.FQDN, port |-> config.Port, org |-> config.OrgID,
     path |-> path]

ReportPath   == "report_templates/rule_hit_count_report"
LabelsPath   == "labels"
FirewallPath == "sec_policy/draft/firewall_settings"
PolicyPath   == "sec_policy"

\* one call of makeAPICall and what it returned; resp is the body the
\* caller goes on to decode (NoBody for a PUT or POST, whose response is
\* only printed)
Call(method, path, body, r, resp) ==
    [method |-> method, url |-> Url(path), body |-> body,
     status |-> r.status, err |-> r.err, resp |-> resp]

\* the documents the PCE serves
ReportDoc == [enabled |-> reportEnabled]
LabelsDoc == [array |-> catalog]
FirewallDoc == [rule_hit_count_enabled_scopes |-> draftScopes]

\* the PCE applies a write it answers with 2xx; when the transport fails
\* the client cannot tell whether the write was applied
Applies(r, applied) == r.err \/ (applied <=> (r.status \in 200..299))

Count(method, path) ==
    Cardinality({i \in DOMAIN requests :
                    requests[i].method = method /\ requests[i].url.path = path})

\* config files at the start of a run
File(exists, readable, content) ==
    [exists |-> exists, readable |-> readable, content |-> content, writes |-> 0]

MainFiles ==
    { File(TRUE, TRUE, FullConfig),
      File(TRUE, TRUE, [FullConfig EXCEPT !.OrgID = << >>]),
      File(TRUE, FALSE, ZeroConfig) }

InitWith(files, catalogs, scopeLists) ==
    /\ pc = "loadConfig"
    /\ cfgFile \in files
    /\ config = ZeroConfig
    /\ catalog \in catalogs
    /\ reportEnabled \in BOOLEAN
    /\ draftScopes \in scopeLists
    /\ activeScopes = draftScopes
    /\ requests = << >>
    /\ labelInput = << >>
    /\ scopeInput = << >>
    /\ scopes = << >>
    /\ payload = NoBody
    /\ moreLabels = << >>
    /\ confirmation = << >>
    /\ fatal = NoFatal
    /\ stdout = << >>
    /\ earlier = << >>

Init == InitWith(MainFiles, Catalogs, InitialScopes)

\* every kind of config file: absent, unreadable, and readable with each
\* field present or empty
AllFiles ==
    { File(FALSE, FALSE, ZeroConfig), File(TRUE, FALSE, ZeroConfig) } \cup
    { File(TRUE, TRUE, c) : c \in [Fields -> {<< >>, <<"1">>}] }

\* a PCE with two labels and rule hit count enabled for all scopes
SmallCatalogs ==
    { << [href |-> "/orgs/1/labels/9", value |-> <<"w","e","b">>],
         [href |-> "/orgs/1/labels/7", value |-> <<"\t","P","R","O","D","U","C","T","I","O","N">>] >> }
SmallScopes == { << << >> >> }

InitCfg == InitWith(AllFiles, SmallCatalogs, SmallScopes)

\* log.Fatalf: the run stops here
Fatal(at, msg, code) ==
    /\ pc' = "fatal"
    /\ fatal' = [at |-> at, msg |-> msg, code |-> code]

(***************************************************************************)
(* main(): one action per prompt and per API call                          *)
(***************************************************************************)
LoadConfig ==
    /\ pc = "loadConfig"
    /\ \E first \in (IF cfgFile.exists THEN {ZeroConfig}
                      ELSE [Fields -> ConfigAnswers]),
          second \in [Fields -> ConfigAnswers] :
          LET res == loadOrCreatePCEConfig(cfgFile, first, second)
          IN  /\ cfgFile' = res.file
              /\ config' = res.config
              /\ stdout' = stdout \o res.out
              /\ IF res.err
                 THEN Fatal("Error loading or creating config", "read", << >>)
                 ELSE pc' = "reportGet" /\ fatal' = fatal
    /\ UNCHANGED << earlier, moreLabels, pce, requests, labelInput, scopeInput, scopes, payload,
                    confirmation >>

\* if reportStatus.Enabled { return nil }
ReportAlreadyEnabledNever(reportStatus) == FALSE
ReportAlreadyEnabled(reportStatus) == reportStatus.Enabled

\* checkAndEnableReport up to the decision on reportStatus.Enabled
ReportGet ==
    /\ pc = "reportGet"
    /\ \E r \in Responses :
          /\ requests' = Append(requests, Call("GET", ReportPath, NoBody, r,
                                              Body(r, ReportDoc)))
          /\ IF CallFailed(r)
             THEN /\ Fatal("Error enabling report",
                           "failed to fetch report status", << r.status >>)
                  /\ stdout' = stdout
             ELSE IF Body(r, ReportDoc) = NotJson
             THEN /\ Fatal("Error enabling report",
                           "failed to parse report status", << >>)
                  /\ stdout' = stdout
             ELSE IF ReportAlreadyEnabled(
                        DecodeReportStatus(Body(r, ReportDoc)))
             THEN /\ pc' = "scopePrompt"
                  /\ fatal' = fatal
                  /\ stdout' = Append(stdout, "Report is already enabled. Skipping this API call.")
             ELSE /\ pc' = "reportPut"
                  /\ fatal' = fatal
                  /\ stdout' = Append(stdout, "Enabling report in PCE...")
    /\ UNCHANGED << earlier, moreLabels, cfgFile, config, pce, labelInput, scopeInput, scopes,
                    payload, confirmation >>

\* checkAndEnableReport: the PUT that enables the report
ReportPut ==
    /\ pc = "reportPut"
    /\ \E r \in Responses, applied \in BOOLEAN :
          /\ Applies(r, applied)
          /\ requests' = Append(requests, Call("PUT", ReportPath, EnablePayload, r, NoBody))
          /\ reportEnabled' = IF applied THEN EnablePayload.enabled
                              ELSE reportEnabled
          /\ IF CallFailed(r)
             THEN Fatal("Error enabling report", "failed to enable report",
                        << r.status >>)
             ELSE pc' = "scopePrompt" /\ fatal' = fatal
    /\ UNCHANGED << earlier, moreLabels, cfgFile, config, catalog, draftScopes, activeScopes,
                    labelInput, scopeInput, scopes, payload, confirmation,
                    stdout >>

\* the first prompt and the choice between "disable", "all" and a label
ScopePrompt ==
    /\ pc = "scopePrompt"
    /\ \E line \in ScopeInputs :
          LET input == TrimSpace(line)
          IN  /\ labelInput' = input
              /\ scopeInput' = input
              /\ IF EqualFold(input, s_disable)
                 THEN /\ payload' = DisablePayload
                      /\ stdout' = Append(stdout, "Disabling rule hit count for all scopes...")
                      /\ pc' = "fwGet"
                 ELSE IF EqualFold(input, s_all)
                 THEN /\ payload' = AllPayload
                      /\ stdout' = Append(stdout, "Enabling rule hit count for all scopes...")
                      /\ pc' = "fwGet"
                 ELSE /\ payload' = payload
                      /\ stdout' = stdout
                      /\ pc' = "labelLookup"
    /\ UNCHANGED << earlier, moreLabels, cfgFile, config, pce, requests, scopes, confirmation, fatal >>

\* one iteration of the label loop up to its next prompt
LabelLookup ==
    /\ pc = "labelLookup"
    /\ Count("GET", LabelsPath) < MaxLookups
    /\ \E r \in Responses :
          LET res == checkLabelHref(r, Body(r, LabelsDoc), labelInput)
          IN  /\ requests' = Append(requests, Call("GET", LabelsPath, NoBody, r,
                                                   Body(r, LabelsDoc)))
              /\ IF res.err # ""
                 THEN /\ stdout' = stdout \o << res.err, "Please enter a valid label:" >>
                      /\ scopes' = scopes
                      /\ pc' = "validPrompt"
                 ELSE /\ scopes' = Append(scopes, LabelRef(res.href))
                      /\ stdout' = Append(stdout, "Do you want to add another label? (y/N): ")
                      /\ pc' = "morePrompt"
    /\ UNCHANGED << earlier, moreLabels, cfgFile, config, pce, labelInput, scopeInput, payload,
                    confirmation, fatal >>

\* the answer to "Please enter a valid label:"
ValidPrompt ==
    /\ pc = "validPrompt"
    /\ \E line \in LabelInputs : labelInput' = TrimSpace(line)
    /\ pc' = "labelLookup"
    /\ UNCHANGED << earlier, moreLabels, cfgFile, config, pce, requests, scopeInput, scopes,
                    payload, confirmation, fatal, stdout >>

\* the answer to "Do you want to add another label? (y/N): "
MorePrompt ==
    /\ pc = "morePrompt"
    /\ \E line \in MoreInputs :
          /\ moreLabels' = line
          /\ IF WantsMore(line)
             THEN /\ stdout' = Append(stdout, "Enter another label: ")
                  /\ payload' = payload
                  /\ pc' = "anotherPrompt"
             ELSE /\ payload' = LabelPayload(scopes)
                  /\ stdout' = stdout
                  /\ pc' = "fwGet"
    /\ UNCHANGED << earlier, cfgFile, config, pce, requests, labelInput, scopeInput,
                    scopes, confirmation, fatal >>

\* the answer to "Enter another label: "
AnotherPrompt ==
    /\ pc = "anotherPrompt"
    /\ \E line \in LabelInputs : labelInput' = TrimSpace(line)
    /\ pc' = "labelLookup"
    /\ UNCHANGED << earlier, moreLabels, cfgFile, config, pce, requests, scopeInput, scopes,
                    payload, confirmation, fatal, stdout >>

\* GET of the current firewall settings and the comparison with payload
FwGet ==
    /\ pc = "fwGet"
    /\ \E r \in Responses :
          /\ requests' = Append(requests, Call("GET", FirewallPath, NoBody, r,
                                              Body(r, FirewallDoc)))
          /\ IF CallFailed(r)
             THEN /\ Fatal("Failed to fetch current firewall settings", "",
                           << r.status >>)
                  /\ stdout' = stdout
             ELSE IF Body(r, FirewallDoc) = NotJson
             THEN /\ Fatal("Failed to parse current firewall settings", "", << >>)
                  /\ stdout' = stdout
             ELSE IF "raw" \in DOMAIN payload
             THEN /\ Fatal("Failed to parse new payload settings", "", << >>)
                  /\ stdout' = stdout
             ELSE IF ScopesEqual(DecodeScopes(Body(r, FirewallDoc)),
                                 DecodeScopes(payload))
             THEN /\ stdout' = Append(stdout, "Rule hit count is already configured as desired. No changes necessary.")
                  /\ pc' = "done"
                  /\ fatal' = fatal
             ELSE /\ stdout' = Append(stdout, "Enabling rule hit count based on the new scope configuration...")
                  /\ pc' = "fwPut"
                  /\ fatal' = fatal
    /\ UNCHANGED << earlier, moreLabels, cfgFile, config, pce, labelInput, scopeInput, scopes,
                    payload, confirmation >>

\* PUT of payload to the draft firewall settings
FwPut ==
    /\ pc = "fwPut"
    /\ \E r \in Responses, applied \in BOOLEAN :
          /\ Applies(r, applied)
          /\ requests' = Append(requests, Call("PUT", FirewallPath, payload, r, NoBody))
          /\ draftScopes' = IF applied THEN payload.rule_hit_count_enabled_scopes
                            ELSE draftScopes
          /\ IF CallFailed(r)
             THEN /\ Fatal("Failed to enable rule hit count", "", << r.status >>)
                  /\ stdout' = stdout
             ELSE /\ stdout' = Append(stdout, "Do you want to proceed with provisioning changes? (Y/n): ")
                  /\ pc' = "provPrompt"
                  /\ fatal' = fatal
    /\ UNCHANGED << earlier, moreLabels, cfgFile, config, catalog, reportEnabled, activeScopes,
                    labelInput, scopeInput, scopes, payload, confirmation >>

\* the answer to the provisioning prompt
ProvPromptAgain ==
    /\ pc = "provPrompt"
    /\ \E line \in ConfirmInputs : confirmation' = TrimSpace(line)
    /\ pc' = "fwGet"
    /\ UNCHANGED << earlier, moreLabels, cfgFile, config, pce, requests, labelInput, scopeInput,
                    scopes, payload, fatal, stdout >>
ProvPrompt ==
    /\ pc = "provPrompt"
    /\ \E line \in ConfirmInputs :
          /\ confirmation' = TrimSpace(line)
          /\ IF Confirmed(confirmation')
             THEN /\ stdout' = Append(stdout, "Provisioning changes...")
                  /\ pc' = "provPost"
             ELSE /\ stdout' = Append(stdout, "Provisioning skipped.")
                  /\ pc' = "done"
    /\ UNCHANGED << earlier, moreLabels, cfgFile, config, pce, requests, labelInput, scopeInput,
                    scopes, payload, fatal >>

\* POST of the provisioning request
ProvPostUndo ==
    /\ pc = "provPost"
    /\ \E r \in Responses, applied \in BOOLEAN :
          /\ Applies(r, applied)
          /\ requests' = Append(requests,
                                Call("POST", PolicyPath, ProvisionPayload(config.OrgID),
                                     r, NoBody))
          /\ activeScopes' = IF applied THEN draftScopes ELSE activeScopes
          /\ IF CallFailed(r)
             THEN /\ Fatal("Failed to provision changes", "", << r.status >>)
                  /\ draftScopes' = activeScopes'
             ELSE pc' = "done" /\ fatal' = fatal /\ draftScopes' = draftScopes
    /\ UNCHANGED << earlier, moreLabels, cfgFile, config, catalog, reportEnabled,
                    labelInput, scopeInput, scopes, payload, confirmation,
                    stdout >>
ProvPost ==
    /\ pc = "provPost"
    /\ \E r \in Responses, applied \in BOOLEAN :
          /\ Applies(r, applied)
          /\ requests' = Append(requests,
                                Call("POST", PolicyPath, ProvisionPayload(config.OrgID),
                                     r, NoBody))
          /\ activeScopes' = IF applied THEN draftScopes ELSE activeScopes
          /\ IF CallFailed(r)
             THEN Fatal("Failed to provision changes", "", << r.status >>)
             ELSE pc' = "done" /\ fatal' = fatal
    /\ UNCHANGED << earlier, moreLabels, cfgFile, config, catalog, reportEnabled, draftScopes,
                    labelInput, scopeInput, scopes, payload, confirmation,
                    stdout >>

Next ==
    \/ LoadConfig
    \/ ReportGet
    \/ ReportPut
    \/ ScopePrompt
    \/ LabelLookup
    \/ ValidPrompt
    \/ MorePrompt
    \/ AnotherPrompt
    \/ FwGet
    \/ FwPut
    \/ ProvPrompt
    \/ ProvPost

Spec == Init /\ [][Next]_vars

\* main() up to the scope prompt, started on every kind of config file
NextCfg ==
    \/ LoadConfig
    \/ ReportGet
    \/ ReportPut

SpecCfg == InitCfg /\ [][NextCfg]_vars

\* the iterations of the label loop after the first MaxLookups lookups:
\* the loop has no retry limit, and a lookup that fails leads back to the
\* prompt for a valid label; the log keeps the first MaxLookups lookups
LabelLookupOn ==
    /\ pc = "labelLookup"
    /\ Count("GET", LabelsPath) >= MaxLookups
    /\ \E r \in Responses :
          checkLabelHref(r, Body(r, LabelsDoc), labelInput).err # ""
    /\ pc' = "validPrompt"
    /\ UNCHANGED << earlier, moreLabels, cfgFile, config, pce, requests, labelInput,
                    scopeInput, scopes, payload, confirmation, fatal, stdout >>

\* a run on a complete profile
LiveFiles == { File(TRUE, TRUE, FullConfig) }
LiveScopes == { << >>, << << LabelRef("/orgs/1/labels/9") >> >> }

InitLive == InitWith(LiveFiles, SmallCatalogs, LiveScopes)

NextLive ==
    \/ Next
    \/ LabelLookupOn

\* main() is sequential: every API call returns and every prompt is
\* answered, so the statement the run is at is executed
SpecLive == InitLive /\ [][NextLive]_vars /\ WF_vars(NextLive)

\* the program is started again after a run that returned from main():
\* the process starts from scratch, pce.json and the PCE are as the run
\* left them
Rerun ==
    /\ pc = "done"
    /\ earlier = << >>
    /\ earlier' = Append(earlier,
                         [payload |-> payload, pce |-> pce,
                          wrote |-> \E i \in DOMAIN requests :
                                       requests[i].method # "GET"])
    /\ pc' = "loadConfig"
    /\ config' = ZeroConfig
    /\ requests' = << >>
    /\ labelInput' = << >>
    /\ scopeInput' = << >>
    /\ scopes' = << >>
    /\ payload' = NoBody
    /\ moreLabels' = << >>
    /\ confirmation' = << >>
    /\ stdout' = << >>
    /\ UNCHANGED << cfgFile, pce, fatal >>

InitRerun == InitWith(LiveFiles, SmallCatalogs, LiveScopes)

NextRerun ==
    \/ Next
    \/ Rerun

\* two runs of the program, one after the other, against the same PCE
SpecRerun == InitRerun /\ [][NextRerun]_vars

(***************************************************************************)
(* vocabulary of the properties                                            *)
(***************************************************************************)
\* request q went to method / path
IsCall(q, method, path) == q.method = method /\ q.url.path = path

\* the response to q had a status in [200,299]
Got2xx(q) == ~q.err /\ q.status >= 200 /\ q.status <= 299

\* the response to q had an HTTP status outside [200,299]
GotNon2xx(q) == ~q.err /\ (q.status <= 199 \/ q.status >= 300)

Printed(msg) == \E i \in DOMAIN stdout : stdout[i] = msg

NoChangesMsg ==
    "Rule hit count is already configured as desired. No changes necessary."
ProvisionPromptMsg ==
    "Do you want to proceed with provisioning changes? (Y/n): "

\* the lengths of the inner lists of a scope list
Shape(scopeList) == [i \in 1..Len(scopeList) |-> Len(scopeList[i])]

(***************************************************************************)
(* C1-C2: the report-enablement step                                       *)
(***************************************************************************)
\* the GET of the report template answered 2xx with the document {enabled: b}
ReportGetSaid(b) ==
    /\ Len(requests) >= 1
    /\ IsCall(requests[1], "GET", ReportPath)
    /\ Got2xx(requests[1])
    /\ requests[1].resp = [enabled |-> b]

\* C1: when the GET of the report template returns 2xx with enabled=true,
\* the step issues no PUT of the report template, the report template of
\* the PCE stays enabled, and the step returns no error (main goes on to
\* the scope prompt).
C1_AlreadyEnabledNoPut ==
    ReportGetSaid(TRUE) =>
        /\ Count("PUT", ReportPath) = 0
        /\ Count("GET", ReportPath) = 1
        /\ reportEnabled = TRUE
        /\ pc \notin {"reportGet", "reportPut"}
        /\ fatal.at # "Error enabling report"

C1_Witness ==
    /\ ReportGetSaid(TRUE)
    /\ pc = "scopePrompt"

\* C2: no run issues more than one PUT of the report template; when the
\* GET returns 2xx with enabled=false and the request after it returns
\* 2xx, the report step has issued exactly one GET followed by exactly one
\* PUT whose body is {enabled: true}, and has returned no error.
C2_EnableOnce ==
    /\ Count("PUT", ReportPath) <= 1
    /\ (ReportGetSaid(FALSE) /\ Len(requests) >= 2 /\ Got2xx(requests[2])) =>
          /\ IsCall(requests[2], "PUT", ReportPath)
          /\ requests[2].body = [enabled |-> TRUE]
          /\ Count("GET", ReportPath) = 1
          /\ Count("PUT", ReportPath) = 1
          /\ pc \notin {"reportGet", "reportPut"}
          /\ fatal.at # "Error enabling report"

C2_Witness ==
    /\ ReportGetSaid(FALSE)
    /\ Len(requests) = 2
    /\ Got2xx(requests[2])
    /\ pc = "scopePrompt"
    /\ reportEnabled

(***************************************************************************)
(* C3: non-2xx responses                                                   *)
(***************************************************************************)
\* C3: a request answered with a non-2xx HTTP status is the last request
\* of the run, and the run has ended with a fatal error that names the
\* status.
C3_Non2xxIsFatal ==
    \A i \in DOMAIN requests :
        GotNon2xx(requests[i]) =>
            /\ i = Len(requests)
            /\ pc = "fatal"
            /\ fatal.code = << requests[i].status >>

(***************************************************************************)
(* C4-C5: the settings-reconciliation step                                 *)
(***************************************************************************)
\* request i is the GET of the firewall settings, answered 2xx with a
\* document that decodes
FirewallGetAt(i) ==
    /\ IsCall(requests[i], "GET", FirewallPath)
    /\ Got2xx(requests[i])
    /\ "rule_hit_count_enabled_scopes" \in DOMAIN requests[i].resp

\* the scope list of the current settings fetched by request i, and of
\* the desired payload
CurrentAt(i) == requests[i].resp.rule_hit_count_enabled_scopes
Desired == payload.rule_hit_count_enabled_scopes

\* C4: when the current settings and the desired payload have the same
\* outer length and the same inner lengths, the run prints "no changes
\* necessary", issues no PUT of the firewall settings and no provisioning
\* POST, and ends normally right after the GET, whatever the labels are.
C4_SameShapeSkips ==
    \A i \in DOMAIN requests :
        (FirewallGetAt(i) /\ Shape(CurrentAt(i)) = Shape(Desired)) =>
            /\ i = Len(requests)
            /\ pc = "done"
            /\ fatal = NoFatal
            /\ stdout[Len(stdout)] = NoChangesMsg
            /\ Count("PUT", FirewallPath) = 0
            /\ Count("POST", PolicyPath) = 0

\* the skip happens although the labels differ
C4_Witness ==
    /\ pc = "done"
    /\ Printed(NoChangesMsg)
    /\ Len(Desired) = 1
    /\ Len(Desired[1]) = 1
    /\ draftScopes # Desired

\* C5: when the current settings and the desired payload differ in outer
\* length or in some inner length, the next request of the run is a PUT
\* of the desired payload to the draft firewall settings and it is the
\* only such PUT; if it fails the run is aborted there, and if it returns
\* 2xx the run goes on to the provisioning prompt.
C5_DifferentShapePuts ==
    \A i \in DOMAIN requests :
        (FirewallGetAt(i) /\ Shape(CurrentAt(i)) # Shape(Desired)) =>
            \/ i = Len(requests) /\ pc = "fwPut"
            \/ /\ i < Len(requests)
               /\ IsCall(requests[i + 1], "PUT", FirewallPath)
               /\ requests[i + 1].body = payload
               /\ Count("PUT", FirewallPath) = 1
               /\ IF Got2xx(requests[i + 1])
                  THEN /\ Printed(ProvisionPromptMsg)
                       /\ pc \in {"provPrompt", "provPost", "done", "fatal"}
                       /\ pc = "fatal" => fatal.at = "Failed to provision changes"
                       /\ draftScopes = Desired
                  ELSE /\ i + 1 = Len(requests)
                       /\ pc = "fatal"
                       /\ fatal.at = "Failed to enable rule hit count"
                       /\ fatal.code = << requests[i + 1].status >>

\* an inner-length difference alone leads to an applied PUT
C5_Witness ==
    /\ pc = "provPrompt"
    /\ Len(requests) >= 2
    /\ FirewallGetAt(Len(requests) - 1)
    /\ Len(CurrentAt(Len(requests) - 1)) = Len(Desired)
    /\ Shape(CurrentAt(Len(requests) - 1)) # Shape(Desired)
    /\ Got2xx(requests[Len(requests)])

(***************************************************************************)
(* C6-C7: provisioning                                                     *)
(***************************************************************************)
\* some request before position n is a PUT of the firewall settings that
\* returned 2xx
FirewallPutOkBefore(n) ==
    \E i \in DOMAIN requests :
        /\ i < n
        /\ IsCall(requests[i], "PUT", FirewallPath)
        /\ Got2xx(requests[i])

\* C6: the provisioning prompt and the provisioning POST occur only after
\* a PUT of the firewall settings has returned 2xx in the run; a run that
\* printed "no changes necessary" neither prompts nor POSTs.
C6_ProvisionOnlyAfterPut ==
    /\ (pc \in {"provPrompt", "provPost"} \/ Printed(ProvisionPromptMsg)) =>
          FirewallPutOkBefore(Len(requests) + 1)
    /\ \A j \in DOMAIN requests :
          IsCall(requests[j], "POST", PolicyPath) => FirewallPutOkBefore(j)
    /\ Printed(NoChangesMsg) =>
          /\ ~Printed(ProvisionPromptMsg)
          /\ Count("POST", PolicyPath) = 0
          /\ Count("PUT", FirewallPath) = 0

C6_Witness ==
    /\ Count("POST", PolicyPath) = 1
    /\ FirewallPutOkBefore(Len(requests))
    /\ pc = "done"

\* the provisioning prompt has been answered
Answered == Printed(ProvisionPromptMsg) /\ pc # "provPrompt"

\* C7: once the provisioning prompt is answered: after an empty answer or
\* y / Y the run issues exactly one provisioning POST, whose body refers
\* to /orgs/{org}/sec_policy/draft/firewall_settings of the configured
\* org; after any other answer it issues no POST and no other request,
\* leaves the PCE as the firewall PUT left it, and ends normally.
C7_ConfirmProvisions ==
    Answered =>
        IF confirmation \in {<< >>, <<"y">>, <<"Y">>}
        THEN \/ pc = "provPost" /\ Count("POST", PolicyPath) = 0
             \/ /\ pc \in {"done", "fatal"}
                /\ Count("POST", PolicyPath) = 1
                /\ IsCall(requests[Len(requests)], "POST", PolicyPath)
                /\ requests[Len(requests)].body.change_subset.firewall_settings
                     = << [href |-> [tpl |-> "/orgs/%s/sec_policy/draft/firewall_settings",
                                     org |-> config.OrgID]] >>
        ELSE /\ pc = "done"
             /\ fatal = NoFatal
             /\ Count("POST", PolicyPath) = 0
             /\ IsCall(requests[Len(requests)], "PUT", FirewallPath)
             /\ stdout[Len(stdout)] = "Provisioning skipped."

\* the empty answer provisions
C7_Witness ==
    /\ Answered
    /\ confirmation = << >>
    /\ Count("POST", PolicyPath) = 1
    /\ pc = "done"
    /\ activeScopes = Desired

\* a declining answer ends the run without a POST
C7_WitnessDeclined ==
    /\ Answered
    /\ confirmation = <<"n">>
    /\ pc = "done"

(***************************************************************************)
(* C8-C10: scope resolution                                                *)
(***************************************************************************)
AfterScopeResolution ==
    pc \in {"fwGet", "fwPut", "provPrompt", "provPost", "done", "fatal"}

\* C8: when the answer to the scope prompt is "disable" in any letter
\* case, scope resolution ends at once with a payload whose scope list is
\* empty, and the run never looks up a label.
C8_DisableEmptyScopes ==
    ToLower(scopeInput) = s_disable =>
            /\ AfterScopeResolution
            /\ "rule_hit_count_enabled_scopes" \in DOMAIN payload
            /\ Len(payload.rule_hit_count_enabled_scopes) = 0
            /\ Count("GET", LabelsPath) = 0
            /\ scopes = << >>

\* "DISABLE" typed in capitals
C8_Witness ==
    /\ scopeInput = <<"D","I","S","A","B","L","E">>
    /\ pc = "fwGet"
    /\ payload = [rule_hit_count_enabled_scopes |-> << >>]

\* C9: when the answer to the scope prompt is "all" in any letter case,
\* scope resolution ends with a payload whose scope list holds exactly
\* one inner list, which is empty.
C9_AllOneEmptyScope ==
    ToLower(scopeInput) = s_all =>
            /\ AfterScopeResolution
            /\ "rule_hit_count_enabled_scopes" \in DOMAIN payload
            /\ Len(payload.rule_hit_count_enabled_scopes) = 1
            /\ Len(payload.rule_hit_count_enabled_scopes[1]) = 0

\* "ALL" typed in capitals
C9_Witness ==
    /\ scopeInput = <<"A","L","L">>
    /\ pc = "fwGet"
    /\ Shape(payload.rule_hit_count_enabled_scopes) = <<0>>

\* the positions of the catalog labels whose trimmed value equals input
\* when both are lower-cased
Matches(input) ==
    {i \in DOMAIN catalog :
        ToLower(TrimSpace(catalog[i].value)) = ToLower(input)}

\* the step is a label lookup
LookupStep == pc = "labelLookup" /\ Len(requests') = Len(requests) + 1

\* the GET of the step returned the catalog
CatalogFetched ==
    /\ Got2xx(requests'[Len(requests')])
    /\ "array" \in DOMAIN requests'[Len(requests')].resp

\* the step printed "label not found"
SaidNotFound ==
    \E k \in (Len(stdout) + 1)..Len(stdout') : stdout'[k] = "label not found"

\* C10: a label lookup that fetched the catalog returns the href of the
\* first label whose trimmed value equals the input case-insensitively
\* (the href is appended to scopes and the run asks for more labels); a
\* lookup answers "label not found" exactly when it fetched the catalog
\* and no label of it matches (nothing is appended and the run asks for a
\* valid label).
C10_FirstMatchOrNotFound ==
    [][LookupStep =>
        /\ SaidNotFound <=> (CatalogFetched /\ Matches(labelInput) = {})
        /\ SaidNotFound => scopes' = scopes /\ pc' = "validPrompt"
        /\ (CatalogFetched /\ Matches(labelInput) # {}) =>
              LET first == CHOOSE i \in Matches(labelInput) :
                              \A j \in Matches(labelInput) : i <= j
              IN  /\ scopes' = Append(scopes, LabelRef(catalog[first].href))
                  /\ pc' = "morePrompt"
      ]_vars

\* "production" resolved to the label "Production ", which precedes the
\* label "production" in the catalog
C10_Witness ==
    /\ pc = "morePrompt"
    /\ labelInput = s_production
    /\ Len(catalog) >= 2
    /\ catalog[1].value = <<"P","r","o","d","u","c","t","i","o","n"," ">>
    /\ catalog[2].value = s_production
    /\ scopes = << LabelRef(catalog[1].href) >>

\* a lookup in a catalog without a matching label
C10_WitnessNotFound ==
    /\ pc = "validPrompt"
    /\ Printed("label not found")
    /\ Matches(labelInput) = {}
    /\ catalog # << >>

(***************************************************************************)
(* C11: label not found                                                    *)
(***************************************************************************)
\* the label lookups of the run that fetched the catalog
FetchedLookups ==
    {i \in DOMAIN requests :
        /\ IsCall(requests[i], "GET", LabelsPath)
        /\ Got2xx(requests[i])
        /\ "array" \in DOMAIN requests[i].resp}

\* how often "label not found" was printed
NotFoundCount ==
    Cardinality({k \in DOMAIN stdout : stdout[k] = "label not found"})

\* the run answered the scope prompt with a label
LabelRun ==
    /\ pc \notin {"loadConfig", "reportGet", "reportPut", "scopePrompt"}
    /\ fatal.at \notin {"Error loading or creating config", "Error enabling report"}
    /\ ToLower(scopeInput) \notin {s_disable, s_all}

CatalogHrefs == {catalog[i].href : i \in DOMAIN catalog}

\* C11: in a run with label input, a lookup that ends with "label not
\* found" adds nothing to scopes (scopes holds one entry per lookup that
\* fetched the catalog and found the label) and leaves the run in scope
\* resolution at the re-prompt; the firewall GET is not reached before a
\* lookup has succeeded; every label reference of the payload is an href
\* of the catalog that a successful lookup returned.
C11_NotFoundRecoverable ==
    LabelRun =>
        /\ Len(scopes) + NotFoundCount = Cardinality(FetchedLookups)
        /\ \A k \in DOMAIN scopes : scopes[k].label.href \in CatalogHrefs
        /\ (Len(stdout) >= 2 /\ stdout[Len(stdout) - 1] = "label not found") =>
              /\ stdout[Len(stdout)] = "Please enter a valid label:"
              /\ pc \in {"validPrompt", "labelLookup"}
              /\ fatal = NoFatal
        /\ (Len(scopes) = 0 \/ pc \in {"validPrompt", "labelLookup",
                                       "morePrompt", "anotherPrompt"}) =>
              /\ Count("GET", FirewallPath) = 0
              /\ pc # "fwGet"
              /\ payload = NoBody
        /\ AfterScopeResolution =>
              /\ Len(scopes) >= 1
              /\ payload = [rule_hit_count_enabled_scopes |-> << scopes >>]

\* a label that was not found, then one that was, and the run went on
C11_Witness ==
    /\ LabelRun
    /\ NotFoundCount = 1
    /\ Len(scopes) = 1
    /\ Count("GET", FirewallPath) = 1
    /\ pc = "done"

(***************************************************************************)
(* C12-C13: the profile                                                    *)
(***************************************************************************)
\* C12: once an API call has been issued, every field of the profile
\* returned by loadOrCreatePCEConfig is non-empty.
C12_FieldsNonEmpty ==
    requests # << >> => \A f \in Fields : config[f] # << >>

\* the step loads an existing, readable config file
LoadsExisting == pc = "loadConfig" /\ cfgFile.exists /\ cfgFile.readable

EmptyFields == {f \in Fields : cfgFile.content[f] = << >>}

\* what the step printed
PrintedNow == SubSeq(stdout', Len(stdout) + 1, Len(stdout'))

\* C13: loading an existing config file with empty fields prompts once
\* for each empty field and for no other, keeps every non-empty field as
\* the file had it, and writes the merged profile to the file; loading a
\* file without empty fields prompts for nothing and writes nothing.
C13_BackfillOnlyMissing ==
    [][LoadsExisting =>
        IF EmptyFields = {}
        THEN /\ stdout' = stdout
             /\ cfgFile' = cfgFile
             /\ config' = cfgFile.content
        ELSE /\ Len(PrintedNow) = Cardinality(EmptyFields) + 1
             /\ {PrintedNow[k] : k \in 1..Cardinality(EmptyFields)}
                   = {PromptText[f] : f \in EmptyFields}
             /\ PrintedNow[Len(PrintedNow)] = "Updated and saved configuration"
             /\ \A f \in Fields \ EmptyFields : config'[f] = cfgFile.content[f]
             /\ cfgFile'.content = config'
             /\ cfgFile'.writes = cfgFile.writes + 1
      ]_vars

\* a file that lacked org_id: one prompt, the other fields as they were
C13_Witness ==
    /\ pc = "reportGet"
    /\ stdout = << "Org ID: ", "Updated and saved configuration" >>
    /\ config = [FullConfig EXCEPT !.OrgID = <<"2">>]
    /\ cfgFile.content = config
    /\ cfgFile.writes = 1

(***************************************************************************)
(* C14: a PCE that is already set up                                       *)
(***************************************************************************)
\* the GET of the firewall settings showed the scope list of the payload
FirewallAsDesired ==
    \E i \in DOMAIN requests : FirewallGetAt(i) /\ CurrentAt(i) = Desired

\* C14: when the report template is enabled and the firewall settings hold
\* the desired scope list at the start of the run (the two GETs of the run
\* show it), the run issues no PUT and no POST, ends normally after the GET
\* of the firewall settings, and the PCE is as it was.
C14_AlreadyEnabledNothingUpdated ==
    (ReportGetSaid(TRUE) /\ FirewallAsDesired) =>
        /\ \A i \in DOMAIN requests : requests[i].method = "GET"
        /\ pc = "done"
        /\ fatal = NoFatal
        /\ reportEnabled = TRUE
        /\ draftScopes = Desired
        /\ activeScopes = draftScopes
        /\ stdout[Len(stdout)] = NoChangesMsg

\* a label scope that the PCE already holds
C14_Witness ==
    /\ ReportGetSaid(TRUE)
    /\ FirewallAsDesired
    /\ pc = "done"
    /\ Len(Desired) = 1
    /\ Desired = << << LabelRef("/orgs/1/labels/9") >> >>

(***************************************************************************)
(* C15: the order of the steps                                             *)
(***************************************************************************)
\* the place of a request in the order of main()
Rank(q) ==
    IF IsCall(q, "GET", ReportPath) THEN 1
    ELSE IF IsCall(q, "PUT", ReportPath) THEN 2
    ELSE IF IsCall(q, "GET", LabelsPath) THEN 3
    ELSE IF IsCall(q, "GET", FirewallPath) THEN 4
    ELSE IF IsCall(q, "PUT", FirewallPath) THEN 5
    ELSE IF IsCall(q, "POST", PolicyPath) THEN 6
    ELSE 0

\* the requests so far: report GET first, ranks never decrease, and only
\* the label GET repeats
RequestOrder ==
    /\ \A i \in DOMAIN requests : Rank(requests[i]) # 0
    /\ requests # << >> => Rank(requests[1]) = 1
    /\ \A i \in 1..(Len(requests) - 1) :
          \/ Rank(requests[i]) < Rank(requests[i + 1])
          \/ Rank(requests[i]) = 3 /\ Rank(requests[i + 1]) = 3
    /\ \A i \in DOMAIN requests :
          /\ Rank(requests[i]) = 2 => i = 2
          /\ Rank(requests[i]) = 5 => Rank(requests[i - 1]) = 4
          /\ Rank(requests[i]) = 6 => Rank(requests[i - 1]) = 5

\* the place of a position of main() in the state machine of the run
Stage(at) ==
    CASE at = "loadConfig" -> 0
      [] at = "reportGet" -> 1
      [] at = "reportPut" -> 2
      [] at = "scopePrompt" -> 3
      [] at \in {"labelLookup", "validPrompt", "morePrompt", "anotherPrompt"} -> 4
      [] at = "fwGet" -> 5
      [] at = "fwPut" -> 6
      [] at = "provPrompt" -> 7
      [] at = "provPost" -> 8
      [] at \in {"done", "fatal"} -> 9

\* a step moves forward, or stays inside the label loop
StageForward ==
    \/ Stage(pc) < Stage(pc')
    \/ Stage(pc) = 4 /\ Stage(pc') = 4

\* C15: the requests of a run are a report GET, then at most one report
\* PUT, then label GETs, then one firewall GET, then at most one firewall
\* PUT right after it, then at most one provisioning POST right after the
\* PUT; every step of main() moves to a later position, except inside the
\* label loop of scope resolution.
C15_FixedOrder == []RequestOrder /\ [][StageForward]_vars

\* a run that went through every kind of request, with a label re-prompt
C15_Witness ==
    /\ pc = "done"
    /\ Len(requests) = 7
    /\ [i \in 1..7 |-> Rank(requests[i])] = <<1, 2, 3, 3, 4, 5, 6>>

(***************************************************************************)
(* C16: the payload of a label run                                         *)
(***************************************************************************)
\* the payload of a label run is one scope that holds the resolved labels
OneScopeOfLabels ==
    (LabelRun /\ "rule_hit_count_enabled_scopes" \in DOMAIN payload) =>
        /\ Len(Desired) = 1
        /\ Desired[1] = scopes
        /\ Len(Desired[1]) = Cardinality(FetchedLookups) - NotFoundCount
        /\ Len(Desired[1]) >= 1

\* scopes grows only at its end, by the reference a successful lookup found
GrowsInOrder ==
    scopes' # scopes =>
        /\ LookupStep
        /\ CatalogFetched
        /\ Matches(labelInput) # {}
        /\ Len(scopes') = Len(scopes) + 1
        /\ SubSeq(scopes', 1, Len(scopes)) = scopes
        /\ \E i \in Matches(labelInput) :
              scopes'[Len(scopes')] = [label |-> [href |-> catalog[i].href]]

\* the answer to "add another label": y or Y asks for one more label, any
\* other answer ends collection and builds the payload from scopes
AnswerDecides ==
    pc = "morePrompt" =>
        /\ scopes' = scopes
        /\ IF TrimSpace(moreLabels') \in {<<"y">>, <<"Y">>}
           THEN pc' = "anotherPrompt" /\ payload' = payload
           ELSE /\ pc' = "fwGet"
                /\ payload' = [rule_hit_count_enabled_scopes |-> << scopes >>]

\* C16: in a run with label input the payload has exactly one scope, which
\* holds one label reference per successful lookup in the order of the
\* lookups; after a lookup the answer y or Y leads to one more label and
\* any other answer ends collection with the labels collected so far.
C16_SingleScopeInOrder ==
    []OneScopeOfLabels /\ [][GrowsInOrder /\ AnswerDecides]_vars

\* "production", then " Y", then " WEB", then "n"
C16_Witness ==
    /\ pc = "fwGet"
    /\ moreLabels = <<"n", "\n">>
    /\ payload = [rule_hit_count_enabled_scopes |->
                     << << LabelRef("/orgs/1/labels/5"),
                           LabelRef("/orgs/1/labels/9") >> >>]

(***************************************************************************)
(* C17: transport errors and malformed JSON                                *)
(***************************************************************************)
\* the request failed in transport, or its 2xx response did not decode
TransportOrParseFailure(q) ==
    q.err \/ (Got2xx(q) /\ q.method = "GET" /\ q.resp = NotJson)

\* C17: a request that fails in transport, or whose response is not the
\* JSON the step decodes, is the last request of the run, and the run has
\* ended with a fatal error.
C17_TransportOrParseIsFatal ==
    \A i \in DOMAIN requests :
        TransportOrParseFailure(requests[i]) =>
            /\ i = Len(requests)
            /\ pc = "fatal"

(***************************************************************************)
(* C18: no rollback                                                        *)
(***************************************************************************)
\* request i is a PUT to path that returned 2xx
PutOkAt(i, path) == IsCall(requests[i], "PUT", path) /\ Got2xx(requests[i])

\* the response to q made its step fail
StepFailed(q) ==
    q.err \/ GotNon2xx(q) \/ (q.method = "GET" /\ q.resp = NotJson)

C18_WitnessReportOnly ==
    /\ pc = "fatal"
    /\ fatal.at = "Failed to fetch current firewall settings"
    /\ PutOkAt(2, ReportPath)
    /\ reportEnabled
    /\ Count("PUT", FirewallPath) = 0
    /\ draftScopes = activeScopes

(***************************************************************************)
(* C19: termination                                                        *)
(***************************************************************************)
Terminated == pc \in {"done", "fatal"}

\* the scope prompt was answered "all" or "disable"
AllOrDisable ==
    /\ pc \notin {"loadConfig", "reportGet", "reportPut", "scopePrompt"}
    /\ ToLower(scopeInput) \in {s_all, s_disable}

\* a label run in which a label was found and the user declined to add
\* another one: collection has ended
Declined == LabelRun /\ AfterScopeResolution

\* a label run in which no lookup has succeeded
NoLabelYet == LabelRun /\ Len(scopes) = 0

\* C19: a run with the scope input "all" or "disable" looks up no label,
\* issues at most five requests and reaches done or a fatal abort; a label
\* run in which a label was found and more labels were declined reaches
\* done or a fatal abort; a label run in which no lookup succeeds stays in
\* the label loop, never issues the GET of the firewall settings, and comes
\* back to the lookup again and again.
C19_Termination ==
    /\ [](AllOrDisable => Count("GET", LabelsPath) = 0 /\ Len(requests) <= 5)
    /\ AllOrDisable ~> Terminated
    /\ Declined ~> Terminated
    /\ [](NoLabelYet => /\ pc \in {"labelLookup", "validPrompt"}
                        /\ Count("GET", FirewallPath) = 0)
    /\ <>[]NoLabelYet => []<>(pc = "labelLookup")

\* the label loop at one more lookup after MaxLookups failed ones
C19_Witness ==
    /\ NoLabelYet
    /\ pc = "labelLookup"
    /\ Count("GET", LabelsPath) = MaxLookups
    /\ NotFoundCount >= 1

(***************************************************************************)
(* C20: running the program again                                          *)
(***************************************************************************)
\* the run follows a run that ended normally
SecondRun == earlier # << >>

\* scope resolution of the second run has not built a payload that differs
\* from the one of the first run
SameScopeInput == payload \in {NoBody, earlier[1].payload}

\* C20: in a run that follows a run that ended normally, as long as scope
\* resolution gives the payload of the first run, every request is a GET,
\* the report is found enabled, and the report flag, the draft and the
\* active scope list of the PCE are as the first run left them.
C20_RerunOnlyGets ==
    (SecondRun /\ SameScopeInput) =>
        /\ \A i \in DOMAIN requests : requests[i].method = "GET"
        /\ pce = earlier[1].pce
        /\ reportEnabled = TRUE
        /\ pc \notin {"reportPut", "fwPut", "provPrompt", "provPost"}

\* the first run wrote to the PCE, the second run with the same payload
\* found nothing to change
C20_Witness ==
    /\ SecondRun
    /\ earlier[1].wrote
    /\ payload = earlier[1].payload
    /\ pc = "done"
    /\ Len(requests) >= 2
    /\ stdout[Len(stdout)] = NoChangesMsg

====
